---- MODULE Spec2Model ----
(***************************************************************************)
(* State-transition core of the two-layer payment chain:                   *)
(*   common/src/common.rs     accounts, account book, transactions, headers*)
(*   common/src/l1_engine.rs  L1 block processing                          *)
(*   common/src/l2_engine.rs  L2 block processing                          *)
(*                                                                         *)
(* Modelling conventions.                                                  *)
(*  - SHA-256 is collision resistant: a digest is modelled as the          *)
(*    one-element sequence holding what was fed to the hasher, and the     *)
(*    all-zero Hash::default() as the empty sequence, which no digest      *)
(*    equals.                                                              *)
(*  - An Option<T> is a sequence of length 0 (None) or 1 (Some).           *)
(*  - u128 amounts are computed modulo U128Modulus, a scaled-down 2^128.   *)
(*    An overflowing `+=` panics in a build with overflow checks and wraps *)
(*    in a build without; overflow_checks is the build's choice.           *)
(*  - A panic aborts the engine: the result "panic" is recorded and the    *)
(*    engine takes no further step.                                        *)
(***************************************************************************)
EXTENDS Integers, Sequences, FiniteSets, TLC

VARIABLES
    overflow_checks,  \* the build: TRUE = integer overflow panics, FALSE = wraps
    l1,               \* EngineData of the L1 engine
    l2,               \* EngineData of the L2 engine
    l1_call,          \* the last l1_engine::process call: input before, result, steps
    l2_call,          \* the last l2_engine::process call: input before, result, steps
    l2_blocks,        \* the L2 headers produced so far, each with its DepositL2 ids
    hist              \* history: L1 events, and per rollup id the deposits
                      \* accepted, the inbox ids removed and the headers accepted;
                      \* per account the transactions sent, and the envelopes
                      \* each engine has accepted

vars == <<overflow_checks, l1, l2, l1_call, l2_call, l2_blocks, hist>>

----------------------------------------------------------------------------
(* Bounds *)

\* stands for 2^128, the modulus of u128 amounts
U128Modulus == 4
\* faucet_amount handed to EngineData::new for the L1 book
FaucetAmount == 2
\* longest pending list handed to one process call
MaxTxns == 2
\* process calls made on the two engines together
MaxCalls == 2

U128Max == U128Modulus - 1

----------------------------------------------------------------------------
(* Keys, hashes, transactions *)

Faucet == "f"
Rollup == "r"
Alice == "a"
Keys == {Faucet, Rollup, Alice}
NoKey == "-"

Ok == "ok"
Panic == "panic"
NoCall == "none"

Sha(fed) == <<fed>>
ZeroHash == <<>>

pk_to_hash(pk) == Sha(pk)

\* A Tx<P> envelope with its variant tag.  key is Payment.to or rollup_pk,
\* receipt is RollupStateUpdate.proof_receipt (empty for the other payloads),
\* signer is the key whose signature over this envelope sig holds.
MkTx(type, sender, sqn, key, amount, receipt, signer) ==
    [type |-> type, sender |-> sender, sqn |-> sqn, key |-> key,
     amount |-> amount, receipt |-> receipt, signer |-> signer]

\* TxPayload::hash: what each payload feeds to the hasher
payload_hash(tx) ==
    [key |-> IF tx.type \in {"Pay", "Deposit", "DepositL2", "RollupCreate"}
             THEN <<tx.key>> ELSE <<>>,
     amount |-> IF tx.type \in {"Pay", "Deposit", "DepositL2", "Withdrawal"}
                THEN <<tx.amount>> ELSE <<>>,
     receipt |-> IF tx.type = "RollupUpdate" THEN tx.receipt ELSE <<>>]

\* Tx::id: sender, sqn, payload and signature; the variant tag is not hashed
TxId(tx) ==
    Sha([sender |-> tx.sender, sqn |-> tx.sqn, payload |-> payload_hash(tx),
         sig |-> tx.signer])

\* Tx::sig_verify: the signature verifies under the sender's key
sig_verify(tx) == tx.signer = tx.sender

\* TxPayload::sender_qualify
sender_qualify(tx, account) ==
    IF tx.type \in {"Pay", "Deposit", "DepositL2", "Withdrawal"}
    THEN account.amount >= tx.amount
    ELSE TRUE

\* tx_set_hash: the ids in list order
tx_set_hash(txns) == Sha([i \in 1..Len(txns) |-> TxId(txns[i])])

----------------------------------------------------------------------------
(* Accounts *)

\* Account::new
AccountNew(owner, amount, rollup) ==
    [owner |-> owner, amount |-> amount, sqn_expect |-> 0, rollup |-> rollup]

\* RollupState { inbox: VecDeque::new(), header_hash: Hash::default(), sqn: 0 }
RollupStateNew == [inbox |-> <<>>, header_hash |-> ZeroHash, sqn |-> 0]

\* RollupState::hash: every inbox id, then header_hash, then sqn
RollupStateHash(ru) ==
    [inbox |-> ru.inbox, header_hash |-> ru.header_hash, sqn |-> ru.sqn]

\* Account::hash: owner, amount, sqn_expect, then the rollup state if any
AccountHash(a) ==
    Sha([owner |-> a.owner, amount |-> a.amount, sqn_expect |-> a.sqn_expect,
         rollup |-> IF Len(a.rollup) = 0 THEN <<>>
                    ELSE <<RollupStateHash(a.rollup[1])>>])

\* BlockHeaderL2::hash
HeaderL2Hash(h) ==
    Sha([parent |-> h.parent, state_root |-> h.state_root, sqn |-> h.sqn,
         txns_hash |-> h.txns_hash, inbox_msg_hash |-> h.inbox_msg_hash,
         inbox_msg_count |-> h.inbox_msg_count, withdrawals |-> h.withdrawals])

\* BlockHeaderL1::hash: events are not hashed
HeaderL1Hash(h) ==
    Sha([parent |-> h.parent, state_root |-> h.state_root, sqn |-> h.sqn,
         txns_hash |-> h.txns_hash])

----------------------------------------------------------------------------
(* The trie (crate partial_binary_merkle): leaves by key, a root that        *)
(* commits to all of them, and the keys whose leaves this copy holds (all   *)
(* of them in a full trie, the requested ones in a partial trie)            *)

TrieNew == [leaves |-> <<>>, known |-> {}]
TrieInsert(t, id, leaf) ==
    [leaves |-> (id :> leaf) @@ t.leaves, known |-> t.known \cup {id}]
TrieGet(t, id) ==
    IF id \in t.known /\ id \in DOMAIN t.leaves THEN <<t.leaves[id]>> ELSE <<>>
TrieRoot(t) == Sha(t.leaves)
TrieVerifyPartial(t) == TRUE

\* insert_or_replace_batch over the engine's to_update map
TrieInsertBatch(t, changes) ==
    [leaves |-> [id \in DOMAIN t.leaves \cup DOMAIN changes |->
                    IF id \in DOMAIN changes THEN changes[id] ELSE t.leaves[id]],
     known |-> t.known \cup DOMAIN changes]

\* get_partial: the same root, the leaves of the requested keys
TrieGetPartial(t, ids) == [leaves |-> t.leaves, known |-> t.known \cap ids]

----------------------------------------------------------------------------
(* The account book: AccountBook { proof_tree, accounts }.  Each operation  *)
(* takes the book and returns the book it leaves behind, its result ("ok",  *)
(* an error tag, or "panic") and, on "ok", the change-set it returns.       *)

\* AccountBook::new
AccountBookNew(faucet_key, faucet_amout) ==
    LET a == AccountNew(faucet_key, faucet_amout, <<>>) IN
    [accounts |-> (pk_to_hash(faucet_key) :> a),
     proof_tree |-> TrieInsert(TrieNew, pk_to_hash(faucet_key), AccountHash(a))]

\* AccountBook::root
BookRoot(book) == TrieRoot(book.proof_tree)

\* AccountBook::update_tree
update_tree(book, changes) ==
    [book EXCEPT !.proof_tree = TrieInsertBatch(@, changes)]

\* AccountBook::verify_partial_root
verify_partial_root(book) ==
    /\ \A id \in DOMAIN book.accounts :
          TrieGet(book.proof_tree, id) = <<AccountHash(book.accounts[id])>>
    /\ TrieVerifyPartial(book.proof_tree)

Ret(book, res, hashes) == [book |-> book, res |-> res, hashes |-> hashes]

\* `x += y` on u128: does it overflow, and what it leaves when it wraps
AddOverflows(x, y) == x + y >= U128Modulus
WrapAdd(x, y) == (x + y) % U128Modulus

\* `x -= y` on u128: does it underflow, and what it leaves when it wraps
SubUnderflows(x, y) == x < y
WrapSub(x, y) == (x - y + U128Modulus) % U128Modulus

\* sender_check asking sender_qualify before it compares the sqn
sender_check_qualify_first(book, tx) ==
    LET id_sender == pk_to_hash(tx.sender) IN
    IF ~sig_verify(tx) THEN "sig"
    ELSE IF id_sender \notin DOMAIN book.accounts THEN "account"
    ELSE IF ~sender_qualify(tx, book.accounts[id_sender]) THEN "sender"
    ELSE IF book.accounts[id_sender].sqn_expect # tx.sqn THEN "sqn"
    ELSE Ok

\* AccountBook::sender_check: "ok" or the error tag
sender_check(book, tx) ==
    LET id_sender == pk_to_hash(tx.sender) IN
    IF ~sig_verify(tx) THEN "sig"
    ELSE IF id_sender \notin DOMAIN book.accounts THEN "account"
    ELSE IF book.accounts[id_sender].sqn_expect # tx.sqn THEN "sqn"
    ELSE IF ~sender_qualify(tx, book.accounts[id_sender]) THEN "sender"
    ELSE Ok

\* the debit of the sender without `a_sender.sqn_expect += 1`
DebitSender_keeps_sqn(accounts, id_sender, amount) ==
    [accounts EXCEPT ![id_sender].amount = WrapSub(@, amount)]

\* the debit of the sender: amount -= tx.payload.amount; sqn_expect += 1
DebitSender(accounts, id_sender, amount) ==
    [accounts EXCEPT ![id_sender].amount = WrapSub(@, amount),
                     ![id_sender].sqn_expect = @ + 1]

\* the credit arm shared by process_payment and process_deposit_l2: insert a
\* new account holding the amount, or add the amount to the existing one
CreditOrCreate(book, accounts, pk, amount, hashes) ==
    LET id_to == pk_to_hash(pk) IN
    IF id_to \notin DOMAIN accounts
    THEN LET a_to == AccountNew(pk, amount, <<>>) IN
         Ret([book EXCEPT !.accounts = (id_to :> a_to) @@ accounts], Ok,
             Append(hashes, <<id_to, AccountHash(a_to)>>))
    ELSE IF AddOverflows(accounts[id_to].amount, amount) /\ overflow_checks
    THEN Ret([book EXCEPT !.accounts = accounts], Panic, <<>>)
    ELSE LET acc == [accounts EXCEPT ![id_to].amount = WrapAdd(@, amount)] IN
         Ret([book EXCEPT !.accounts = acc], Ok,
             Append(hashes, <<id_to, AccountHash(acc[id_to])>>))

\* AccountBook::process_payment
process_payment(book, tx) ==
    LET chk == sender_check(book, tx)
        id_sender == pk_to_hash(tx.sender)
        acc == DebitSender(book.accounts, id_sender, tx.amount)
    IN  IF chk # Ok THEN Ret(book, chk, <<>>)
        ELSE CreditOrCreate(book, acc, tx.key, tx.amount,
                            << <<id_sender, AccountHash(acc[id_sender])>> >>)

\* process_create_rollup_account without the `exist` arm: the account of
\* rollup_pk is inserted over the one the book holds
process_create_rollup_account_overwrites(book, tx) ==
    LET chk == sender_check(book, tx)
        id_sender == pk_to_hash(tx.sender)
        id_to == pk_to_hash(tx.key)
        acc == [book.accounts EXCEPT ![id_sender].sqn_expect = @ + 1]
        a_to == AccountNew(tx.key, 0, <<RollupStateNew>>)
    IN  IF chk # Ok THEN Ret(book, chk, <<>>)
        ELSE Ret([book EXCEPT !.accounts = (id_to :> a_to) @@ acc], Ok,
                 << <<id_sender, AccountHash(acc[id_sender])>>,
                    <<id_to, AccountHash(a_to)>> >>)

\* process_create_rollup_account adding 1 to the sender's sqn_expect before it
\* looks for the account of rollup_pk
process_create_rollup_account_bumps_first(book, tx) ==
    LET chk == sender_check(book, tx)
        id_sender == pk_to_hash(tx.sender)
        id_to == pk_to_hash(tx.key)
        acc == [book.accounts EXCEPT ![id_sender].sqn_expect = @ + 1]
        a_to == AccountNew(tx.key, 0, <<RollupStateNew>>)
    IN  IF chk # Ok THEN Ret(book, chk, <<>>)
        ELSE IF id_to \in DOMAIN book.accounts
        THEN Ret([book EXCEPT !.accounts = acc], "exist", <<>>)
        ELSE Ret([book EXCEPT !.accounts = (id_to :> a_to) @@ acc], Ok,
                 << <<id_sender, AccountHash(acc[id_sender])>>,
                    <<id_to, AccountHash(a_to)>> >>)

\* AccountBook::process_create_rollup_account
process_create_rollup_account(book, tx) ==
    LET chk == sender_check(book, tx)
        id_sender == pk_to_hash(tx.sender)
        id_to == pk_to_hash(tx.key)
        acc == [book.accounts EXCEPT ![id_sender].sqn_expect = @ + 1]
        a_to == AccountNew(tx.key, 0, <<RollupStateNew>>)
    IN  IF chk # Ok THEN Ret(book, chk, <<>>)
        ELSE IF id_to \in DOMAIN book.accounts THEN Ret(book, "exist", <<>>)
        ELSE Ret([book EXCEPT !.accounts = (id_to :> a_to) @@ acc], Ok,
                 << <<id_sender, AccountHash(acc[id_sender])>>,
                    <<id_to, AccountHash(a_to)>> >>)

\* the credit of process_deposit_l1, which comes before the debit: the
\* accounts once `a_to.amount += tx.payload.amount` and the inbox push_back
\* are done (the addition wrapping)
DepositCredit(accounts, tx) ==
    [accounts EXCEPT ![pk_to_hash(tx.key)].amount = WrapAdd(@, tx.amount),
                     ![pk_to_hash(tx.key)].rollup[1].inbox = Append(@, TxId(tx))]

\* AccountBook::process_deposit_l1
process_deposit_l1(book, tx) ==
    LET chk == sender_check(book, tx)
        id_sender == pk_to_hash(tx.sender)
        id_to == pk_to_hash(tx.key)
        a_to == book.accounts[id_to]
        acc1 == DepositCredit(book.accounts, tx)
        a_to1 == acc1[id_to]
        acc2 == DebitSender(acc1, id_sender, tx.amount)
    IN  IF chk # Ok THEN Ret(book, chk, <<>>)
        ELSE IF id_to \notin DOMAIN book.accounts THEN Ret(book, "missing", <<>>)
        ELSE IF Len(a_to.rollup) = 0 THEN Ret(book, "not rollup account", <<>>)
        ELSE IF AddOverflows(a_to.amount, tx.amount) /\ overflow_checks
        THEN Ret(book, Panic, <<>>)
        \* the debit of an amount the credit has wrapped away
        ELSE IF SubUnderflows(acc1[id_sender].amount, tx.amount) /\ overflow_checks
        THEN Ret([book EXCEPT !.accounts = acc1], Panic, <<>>)
        ELSE Ret([book EXCEPT !.accounts = acc2], Ok,
                 << <<id_to, AccountHash(a_to1)>>,
                    <<id_sender, AccountHash(acc2[id_sender])>> >>)

\* process_deposit_l2 counting the deposit as a transaction sent by the
\* account it credits
process_deposit_l2_bumps_sqn(book, tx) ==
    LET r == CreditOrCreate(book, book.accounts, tx.sender, tx.amount, <<>>) IN
    IF r.res # Ok THEN r
    ELSE Ret([r.book EXCEPT !.accounts[pk_to_hash(tx.sender)].sqn_expect = @ + 1],
             Ok, r.hashes)

\* AccountBook::process_deposit_l2: credits tx.sender, no sender_check
process_deposit_l2(book, tx) ==
    CreditOrCreate(book, book.accounts, tx.sender, tx.amount, <<>>)

\* process_withdrawal recording the withdrawal before sender_check: a call
\* that is rejected has then already grown the caller's list
process_withdrawal_records_first(book, tx, w_records) ==
    LET chk == sender_check(book, tx)
        id_sender == pk_to_hash(tx.sender)
        acc == DebitSender(book.accounts, id_sender, tx.amount)
        recorded == Append(w_records, [to |-> tx.sender, amount |-> tx.amount])
    IN  IF chk # Ok
        THEN [book |-> book, res |-> chk, hashes |-> <<>>, w_records |-> recorded]
        ELSE [book |-> [book EXCEPT !.accounts = acc], res |-> Ok,
              hashes |-> << <<id_sender, AccountHash(acc[id_sender])>> >>,
              w_records |-> recorded]

\* AccountBook::process_withdrawal, w_records being the caller's list;
\* the result carries the list as the call leaves it
process_withdrawal(book, tx, w_records) ==
    LET chk == sender_check(book, tx)
        id_sender == pk_to_hash(tx.sender)
        acc == DebitSender(book.accounts, id_sender, tx.amount)
    IN  IF chk # Ok
        THEN [book |-> book, res |-> chk, hashes |-> <<>>, w_records |-> w_records]
        ELSE [book |-> [book EXCEPT !.accounts = acc], res |-> Ok,
              hashes |-> << <<id_sender, AccountHash(acc[id_sender])>> >>,
              w_records |-> Append(w_records, [to |-> tx.sender, amount |-> tx.amount])]

\* valid_receipt as the callers of this repository write it: the receipt is
\* the serialised header; bytes that hold no header are refused
valid_receipt(receipt) ==
    IF Len(receipt) = 0 THEN [ok |-> FALSE, err |-> "receipt"]
    ELSE [ok |-> TRUE, header |-> receipt[1]]

\* `for w in &header.withdrawals { ws += w.amount }`: the wrapped sum, and
\* whether some addition overflowed
RECURSIVE SumWithdrawals(_, _, _)
SumWithdrawals(withdrawals, i, ws) ==
    IF i > Len(withdrawals) THEN [v |-> ws.v, ovf |-> ws.ovf]
    ELSE SumWithdrawals(withdrawals, i + 1,
            [v |-> WrapAdd(ws.v, withdrawals[i].amount),
             ovf |-> ws.ovf \/ AddOverflows(ws.v, withdrawals[i].amount)])

\* AccountBook::get_account_or_new
get_account_or_new(accounts, pk) ==
    IF pk_to_hash(pk) \in DOMAIN accounts THEN accounts
    ELSE (pk_to_hash(pk) :> AccountNew(pk, 0, <<>>)) @@ accounts

\* `for w in header.withdrawals { acc = get_account_or_new(w.to);
\*  acc.amount += w.amount }`: the accounts left, and whether a credit panicked
RECURSIVE CreditWithdrawals(_, _, _)
CreditWithdrawals(accounts, withdrawals, i) ==
    IF i > Len(withdrawals) THEN [accounts |-> accounts, panicked |-> FALSE]
    ELSE LET w == withdrawals[i]
             acc == get_account_or_new(accounts, w.to)
             id == pk_to_hash(w.to)
         IN  IF AddOverflows(acc[id].amount, w.amount) /\ overflow_checks
             THEN [accounts |-> acc, panicked |-> TRUE]
             ELSE CreditWithdrawals(
                     [acc EXCEPT ![id].amount = WrapAdd(@, w.amount)],
                     withdrawals, i + 1)

\* the update block without the increment of the rollup sqn
RollupAccept_keeps_sqn(a_sender, header, ws) ==
    [a_sender EXCEPT
        !.rollup[1].inbox = SubSeq(@, header.inbox_msg_count + 1, Len(@)),
        !.rollup[1].header_hash = HeaderL2Hash(header),
        !.amount = @ - ws,
        !.sqn_expect = @ + 1]

\* the update block taking the inbox ids from the back instead of the front
RollupAccept_pops_back(a_sender, header, ws) ==
    [a_sender EXCEPT
        !.rollup[1].inbox = SubSeq(@, 1, Len(@) - header.inbox_msg_count),
        !.rollup[1].sqn = @ + 1,
        !.rollup[1].header_hash = HeaderL2Hash(header),
        !.amount = @ - ws,
        !.sqn_expect = @ + 1]

\* the update block of process_rollup_state_update on the rollup account
RollupAccept(a_sender, header, ws) ==
    [a_sender EXCEPT
        !.rollup[1].inbox = SubSeq(@, header.inbox_msg_count + 1, Len(@)),
        !.rollup[1].sqn = @ + 1,
        !.rollup[1].header_hash = HeaderL2Hash(header),
        !.amount = @ - ws,
        !.sqn_expect = @ + 1]

\* AccountBook::process_rollup_state_update
process_rollup_state_update(book, tx) ==
    LET chk == sender_check(book, tx)
        id_sender == pk_to_hash(tx.sender)
        vr == valid_receipt(tx.receipt)
        header == vr.header
        a_sender == book.accounts[id_sender]
        rollup == a_sender.rollup[1]
        x == Sha(SubSeq(rollup.inbox, 1, header.inbox_msg_count))
        sum == SumWithdrawals(header.withdrawals, 1, [v |-> 0, ovf |-> FALSE])
        a_sender1 == RollupAccept(a_sender, header, sum.v)
        cr == CreditWithdrawals([book.accounts EXCEPT ![id_sender] = a_sender1],
                                header.withdrawals, 1)
    IN  IF chk # Ok THEN Ret(book, chk, <<>>)
        ELSE IF ~vr.ok THEN Ret(book, vr.err, <<>>)
        ELSE IF Len(a_sender.rollup) = 0 THEN Ret(book, "account_rollup", <<>>)
        ELSE IF header.parent # rollup.header_hash THEN Ret(book, "parent", <<>>)
        ELSE IF header.sqn # rollup.sqn THEN Ret(book, "sqn", <<>>)
        \* rollup.inbox[i] with i past the end: index out of bounds
        ELSE IF header.inbox_msg_count > Len(rollup.inbox) THEN Ret(book, Panic, <<>>)
        ELSE IF x # header.inbox_msg_hash THEN Ret(book, "inbox", <<>>)
        ELSE IF sum.ovf /\ overflow_checks THEN Ret(book, Panic, <<>>)
        ELSE IF sum.v > a_sender.amount THEN Ret(book, "withdraw", <<>>)
        ELSE IF cr.panicked
        THEN Ret([book EXCEPT !.accounts = cr.accounts], Panic, <<>>)
        ELSE Ret([book EXCEPT !.accounts = cr.accounts], Ok,
                 << <<id_sender, AccountHash(a_sender1)>> >>)

\* AccountBook::get_affected_account_ids; "panic" on a variant of L1
get_affected_account_ids(txns) ==
    IF \E i \in DOMAIN txns : txns[i].type \in {"Deposit", "RollupCreate", "RollupUpdate"}
    THEN [res |-> Panic, ids |-> {}]
    ELSE [res |-> Ok,
          ids |-> {pk_to_hash(txns[i].sender) : i \in DOMAIN txns}
                  \cup {pk_to_hash(txns[i].key) :
                           i \in {j \in DOMAIN txns : txns[j].type = "Pay"}}]

\* AccountBook::get_partial: the book it returns, or "panic" when
\* `self.accounts.get(id).unwrap()` meets an id the book has no account for
get_partial(book, txns) ==
    LET aff == get_affected_account_ids(txns) IN
    IF aff.res # Ok THEN [res |-> Panic, book |-> book]
    ELSE IF \E id \in aff.ids : id \notin DOMAIN book.accounts
    THEN [res |-> Panic, book |-> book]
    ELSE [res |-> Ok,
          book |-> [accounts |-> [id \in aff.ids |-> book.accounts[id]],
                    proof_tree |-> TrieGetPartial(book.proof_tree, aff.ids)]]

----------------------------------------------------------------------------
(* EngineData and the two engines *)

\* EngineData::new
EngineDataNew(faucet_key, faucet_amout) ==
    [parent |-> ZeroHash, account_book |-> AccountBookNew(faucet_key, faucet_amout),
     txns |-> <<>>, sqn |-> 0]

\* EngineData::update leaving the parent as it was
EngineDataUpdate_keeps_parent(input, parent) ==
    [input EXCEPT !.txns = <<>>, !.sqn = @ + 1]

\* EngineData::update
EngineDataUpdate(input, parent) ==
    [input EXCEPT !.txns = <<>>, !.sqn = @ + 1, !.parent = parent]

\* `for (k, v) in updates.drain(..) { to_update.insert(k, v) }`: a later
\* entry for an id replaces the earlier one
MergeUpdates(to_update, updates) ==
    LET ids == {updates[i][1] : i \in DOMAIN updates}
        last(id) == CHOOSE i \in DOMAIN updates :
                       /\ updates[i][1] = id
                       /\ \A j \in DOMAIN updates : updates[j][1] = id => j <= i
    IN  [id \in DOMAIN to_update \cup ids |->
            IF id \in ids THEN updates[last(id)][2] ELSE to_update[id]]

\* one book operation as the engine ran it
Step(tx, pre, r, w_pre, w_post) ==
    [tx |-> tx, pre |-> pre, post |-> r.book, res |-> r.res, hashes |-> r.hashes,
     w_pre |-> w_pre, w_post |-> w_post]

\* the match of l1_engine::process with an arm that hands a DepositL2 to
\* process_deposit_l2
L1Apply_admits_deposit_l2(book, t) ==
    IF t.type = "Pay" THEN process_payment(book, t)
    ELSE IF t.type = "Deposit" THEN process_deposit_l1(book, t)
    ELSE IF t.type = "RollupCreate" THEN process_create_rollup_account(book, t)
    ELSE IF t.type = "RollupUpdate" THEN process_rollup_state_update(book, t)
    ELSE IF t.type = "DepositL2" THEN process_deposit_l2(book, t)
    ELSE Ret(book, "tx type", <<>>)

\* the match of l1_engine::process on one transaction
L1Apply(book, t) ==
    IF t.type = "Pay" THEN process_payment(book, t)
    ELSE IF t.type = "Deposit" THEN process_deposit_l1(book, t)
    ELSE IF t.type = "RollupCreate" THEN process_create_rollup_account(book, t)
    ELSE IF t.type = "RollupUpdate" THEN process_rollup_state_update(book, t)
    ELSE Ret(book, "tx type", <<>>)

\* the loop of l1_engine::process from transaction i on; st holds the book,
\* to_update, deposits, the steps run and the result so far.  L1LoopBody is
\* the rest of one iteration once the book operation has answered r: `?`
\* leaves on an error, otherwise the change-set is merged and a Deposit is
\* collected
RECURSIVE L1Loop(_, _, _)
L1LoopBody(st, txns, i, r) ==
    IF r.res = "tx type" THEN [st EXCEPT !.res = r.res]
    ELSE IF r.res # Ok
    THEN [st EXCEPT !.book = r.book, !.res = r.res,
                    !.steps = Append(@, Step(txns[i], st.book, r, <<>>, <<>>))]
    ELSE L1Loop([book |-> r.book,
                 to_update |-> MergeUpdates(st.to_update, r.hashes),
                 deposits |-> IF txns[i].type = "Deposit"
                              THEN Append(st.deposits, txns[i]) ELSE st.deposits,
                 steps |-> Append(st.steps, Step(txns[i], st.book, r, <<>>, <<>>)),
                 res |-> Ok],
                txns, i + 1)

L1Loop(st, txns, i) ==
    IF i > Len(txns) THEN st
    ELSE L1LoopBody(st, txns, i, L1Apply(st.book, txns[i]))

\* the end of l1_engine::process with the collected deposits put into the
\* header last first
L1Finish_events_reversed(input, run, book1) ==
    IF run.res # Ok
    THEN [input |-> [input EXCEPT !.account_book = run.book],
          res |-> run.res, header |-> <<>>, steps |-> run.steps]
    ELSE LET n == Len(run.deposits)
             header == [parent |-> input.parent, state_root |-> BookRoot(book1),
                        sqn |-> input.sqn, txns_hash |-> tx_set_hash(input.txns),
                        events |-> [i \in 1..n |-> run.deposits[n + 1 - i]]]
         IN  [input |-> EngineDataUpdate([input EXCEPT !.account_book = book1],
                                         HeaderL1Hash(header)),
              res |-> Ok, header |-> <<header>>, steps |-> run.steps]

\* the end of l1_engine::process: an Err leaves the book as the loop left it;
\* otherwise update_tree, the header, EngineData::update
L1Finish(input, run, book1) ==
    IF run.res # Ok
    THEN [input |-> [input EXCEPT !.account_book = run.book],
          res |-> run.res, header |-> <<>>, steps |-> run.steps]
    ELSE LET header == [parent |-> input.parent, state_root |-> BookRoot(book1),
                        sqn |-> input.sqn, txns_hash |-> tx_set_hash(input.txns),
                        events |-> run.deposits]
         IN  [input |-> EngineDataUpdate([input EXCEPT !.account_book = book1],
                                         HeaderL1Hash(header)),
              res |-> Ok, header |-> <<header>>, steps |-> run.steps]

L1Commit(input, run) == L1Finish(input, run, update_tree(run.book, run.to_update))

\* l1_engine::process: the EngineData it leaves, its result, the header it
\* returns (on "ok") and the steps it ran
l1_process(input) ==
    L1Commit(input,
             L1Loop([book |-> input.account_book, to_update |-> <<>>,
                     deposits |-> <<>>, steps |-> <<>>, res |-> Ok],
                    input.txns, 1))

WithRecords(r, w_records) ==
    [book |-> r.book, res |-> r.res, hashes |-> r.hashes, w_records |-> w_records]

\* the match of l2_engine::process on one transaction; w_records is the
\* engine's list, which only process_withdrawal is handed
L2Apply(book, t, w_records) ==
    IF t.type = "Pay" THEN WithRecords(process_payment(book, t), w_records)
    ELSE IF t.type = "DepositL2"
    THEN WithRecords(process_deposit_l2(book, t), w_records)
    ELSE IF t.type = "Withdrawal" THEN process_withdrawal(book, t, w_records)
    ELSE WithRecords(Ret(book, "tx type", <<>>), w_records)

\* the loop of l2_engine::process from transaction i on
RECURSIVE L2Loop(_, _, _)
L2LoopBody(st, txns, i, r) ==
    IF r.res = "tx type" THEN [st EXCEPT !.res = r.res]
    ELSE IF r.res # Ok
    THEN [st EXCEPT !.book = r.book, !.res = r.res, !.w_records = r.w_records,
                    !.steps = Append(@, Step(txns[i], st.book, r, st.w_records,
                                             r.w_records))]
    ELSE L2Loop([book |-> r.book,
                 to_update |-> MergeUpdates(st.to_update, r.hashes),
                 w_records |-> r.w_records,
                 l1_l2_msgs |-> IF txns[i].type = "DepositL2"
                                THEN Append(st.l1_l2_msgs, TxId(txns[i]))
                                ELSE st.l1_l2_msgs,
                 steps |-> Append(st.steps, Step(txns[i], st.book, r, st.w_records,
                                                 r.w_records)),
                 res |-> Ok],
                txns, i + 1)

L2Loop(st, txns, i) ==
    IF i > Len(txns) THEN st
    ELSE L2LoopBody(st, txns, i, L2Apply(st.book, txns[i], st.w_records))

\* the end of l2_engine::process counting every transaction of the block as
\* an inbox message
L2Finish_counts_all(input, run, book1) ==
    IF run.res # Ok
    THEN [input |-> [input EXCEPT !.account_book = run.book],
          res |-> run.res, header |-> <<>>, steps |-> run.steps,
          msgs |-> run.l1_l2_msgs]
    ELSE LET header == [parent |-> input.parent, state_root |-> BookRoot(book1),
                        sqn |-> input.sqn, txns_hash |-> tx_set_hash(input.txns),
                        inbox_msg_hash |-> Sha(run.l1_l2_msgs),
                        inbox_msg_count |-> Len(input.txns),
                        withdrawals |-> run.w_records]
         IN  [input |-> EngineDataUpdate([input EXCEPT !.account_book = book1],
                                         HeaderL2Hash(header)),
              res |-> Ok, header |-> <<header>>, steps |-> run.steps,
              msgs |-> run.l1_l2_msgs]

\* the end of l2_engine::process
L2Finish(input, run, book1) ==
    IF run.res # Ok
    THEN [input |-> [input EXCEPT !.account_book = run.book],
          res |-> run.res, header |-> <<>>, steps |-> run.steps,
          msgs |-> run.l1_l2_msgs]
    ELSE LET header == [parent |-> input.parent, state_root |-> BookRoot(book1),
                        sqn |-> input.sqn, txns_hash |-> tx_set_hash(input.txns),
                        inbox_msg_hash |-> Sha(run.l1_l2_msgs),
                        inbox_msg_count |-> Len(run.l1_l2_msgs),
                        withdrawals |-> run.w_records]
         IN  [input |-> EngineDataUpdate([input EXCEPT !.account_book = book1],
                                         HeaderL2Hash(header)),
              res |-> Ok, header |-> <<header>>, steps |-> run.steps,
              msgs |-> run.l1_l2_msgs]

L2Commit(input, run) == L2Finish(input, run, update_tree(run.book, run.to_update))

\* l2_engine::process
l2_process(input) ==
    L2Commit(input,
             L2Loop([book |-> input.account_book, to_update |-> <<>>,
                     w_records |-> <<>>, l1_l2_msgs |-> <<>>,
                     steps |-> <<>>, res |-> Ok],
                    input.txns, 1))

----------------------------------------------------------------------------
(* History kept beside the program state *)

Ids == {pk_to_hash(k) : k \in Keys}

HistInit ==
    [events |-> <<>>,
     deposited |-> [id \in Ids |-> <<>>],
     removed |-> [id \in Ids |-> <<>>],
     accepted |-> [id \in Ids |-> <<>>],
     sent_l1 |-> [id \in Ids |-> 0],
     sent_l2 |-> [id \in Ids |-> 0],
     headers_l1 |-> <<>>,
     log_l1 |-> <<>>,
     log_l2 |-> <<>>]

\* what one accepted L1 book operation adds: process_deposit_l1 pushes the
\* id at the back of the target's inbox; process_rollup_state_update accepts
\* the header and pops inbox_msg_count ids off the front of the sender's inbox;
\* every accepted transaction is one more sent by its sender and one more in
\* the log of L1
HistStep(h, step) ==
    LET id_to == pk_to_hash(step.tx.key)
        id_sender == pk_to_hash(step.tx.sender)
        header == step.tx.receipt[1]
    IN  IF step.res # Ok THEN h
        ELSE IF step.tx.type = "Deposit"
        THEN [h EXCEPT !.deposited[id_to] = Append(@, TxId(step.tx)),
                       !.sent_l1[id_sender] = @ + 1,
                       !.log_l1 = Append(@, step.tx)]
        ELSE IF step.tx.type = "RollupUpdate"
        THEN [h EXCEPT
                !.accepted[id_sender] = Append(@, header),
                !.removed[id_sender] =
                    @ \o SubSeq(step.pre.accounts[id_sender].rollup[1].inbox,
                                1, header.inbox_msg_count),
                !.sent_l1[id_sender] = @ + 1,
                !.log_l1 = Append(@, step.tx)]
        ELSE [h EXCEPT !.sent_l1[id_sender] = @ + 1,
                       !.log_l1 = Append(@, step.tx)]

RECURSIVE HistSteps(_, _, _)
HistSteps(h, steps, i) ==
    IF i > Len(steps) THEN h ELSE HistSteps(HistStep(h, steps[i]), steps, i + 1)

\* what one accepted L2 book operation adds: a Pay or a Withdrawal is one
\* more transaction sent by its sender; a DepositL2 is handed in by the
\* relayer, its sender field names the account credited
HistStepL2(h, step) ==
    IF step.res = Ok /\ step.tx.type \in {"Pay", "Withdrawal"}
    THEN [h EXCEPT !.sent_l2[pk_to_hash(step.tx.sender)] = @ + 1,
                   !.log_l2 = Append(@, step.tx)]
    ELSE h

RECURSIVE HistStepsL2(_, _, _)
HistStepsL2(h, steps, i) ==
    IF i > Len(steps) THEN h
    ELSE HistStepsL2(HistStepL2(h, steps[i]), steps, i + 1)

----------------------------------------------------------------------------
(* Inputs: the transactions a caller queues *)

\* the sqn a TxSigner of pk would use next on this book
NextSqn(book, pk) ==
    IF pk_to_hash(pk) \in DOMAIN book.accounts
    THEN book.accounts[pk_to_hash(pk)].sqn_expect ELSE 0

W(to, amount) == [to |-> to, amount |-> amount]

\* withdrawal lists a header may carry
WithdrawalLists ==
    { <<>>, <<W(Alice, 1)>>, <<W(Faucet, 1)>>, <<W(Rollup, 1)>>,
      <<W(Alice, 1), W(Alice, 1)>>, <<W(Alice, U128Max)>>,
      <<W(Alice, U128Max), W(Faucet, 1)>>,
      <<W(Rollup, U128Max), W(Faucet, 1)>> }

HeaderL2(parent, sqn, inbox_msg_hash, inbox_msg_count, withdrawals) ==
    [parent |-> parent, state_root |-> ZeroHash, sqn |-> sqn, txns_hash |-> ZeroHash,
     inbox_msg_hash |-> inbox_msg_hash, inbox_msg_count |-> inbox_msg_count,
     withdrawals |-> withdrawals]

\* the rollup state of pk's account, a fresh one if it has none
RollupOf(book, pk) ==
    IF pk_to_hash(pk) \in DOMAIN book.accounts
       /\ Len(book.accounts[pk_to_hash(pk)].rollup) = 1
    THEN book.accounts[pk_to_hash(pk)].rollup[1]
    ELSE RollupStateNew

\* headers a receipt may hold: the ones that fit the rollup account as it
\* stands, ones off in one field, and the headers the L2 engine produced
HeaderInputs(book) ==
    LET ru == RollupOf(book, Rollup)
        n == Len(ru.inbox)
        other == HeaderL2Hash(HeaderL2(ZeroHash, ru.sqn + 1, ZeroHash, 0, <<>>))
    IN  {HeaderL2(ru.header_hash, ru.sqn, Sha(SubSeq(ru.inbox, 1, c)), c, ws) :
            c \in 0..n, ws \in WithdrawalLists}
        \cup {HeaderL2(other, ru.sqn, Sha(<<>>), 0, <<>>),
              HeaderL2(ru.header_hash, ru.sqn + 1, Sha(<<>>), 0, <<>>),
              HeaderL2(ru.header_hash, ru.sqn, ZeroHash, n, <<>>),
              HeaderL2(ru.header_hash, ru.sqn, Sha(ru.inbox), n + 1, <<>>)}
        \cup {l2_blocks[i].header : i \in DOMAIN l2_blocks}

\* transactions queued on L1, each with the sqn its sender would use next
\* unless said otherwise
L1TxInputs(book) ==
    LET f == NextSqn(book, Faucet)
        a == NextSqn(book, Alice)
        r == NextSqn(book, Rollup)
    IN  { MkTx("Pay", Faucet, f, Alice, 1, <<>>, Faucet),
          MkTx("Pay", Faucet, f, Alice, U128Max, <<>>, Faucet),
          MkTx("Pay", Faucet, f, Faucet, 1, <<>>, Faucet),
          MkTx("Pay", Faucet, f, Rollup, 1, <<>>, Faucet),
          MkTx("Pay", Alice, a, Faucet, 1, <<>>, Alice),
          MkTx("Pay", Rollup, r, Faucet, 1, <<>>, Rollup),
          \* signed by another key
          MkTx("Pay", Faucet, f, Alice, 1, <<>>, Alice),
          \* a sqn ahead of the sender's
          MkTx("Pay", Faucet, f + 1, Alice, 1, <<>>, Faucet),
          \* envelopes that fail more than one check of sender_check
          MkTx("Pay", Faucet, 7, Alice, U128Max, <<>>, Faucet),
          MkTx("Pay", Alice, 7, Faucet, U128Max, <<>>, Alice),
          MkTx("Pay", Alice, 7, Faucet, U128Max, <<>>, Faucet),
          MkTx("RollupCreate", Faucet, f, Rollup, 0, <<>>, Faucet),
          MkTx("RollupCreate", Faucet, f, Faucet, 0, <<>>, Faucet),
          \* for an account that exists, from a sender that may not
          MkTx("RollupCreate", Alice, a, Faucet, 0, <<>>, Alice),
          MkTx("Deposit", Faucet, f, Rollup, 1, <<>>, Faucet),
          MkTx("Deposit", Alice, a, Rollup, 1, <<>>, Alice),
          MkTx("Deposit", Faucet, f, Alice, 1, <<>>, Faucet),
          \* the rollup account depositing to itself
          MkTx("Deposit", Rollup, r, Rollup, U128Max, <<>>, Rollup),
          MkTx("RollupUpdate", Rollup, r, NoKey, 0, <<>>, Rollup),
          MkTx("RollupUpdate", Faucet, f, NoKey, 0,
               <<HeaderL2(ZeroHash, 0, Sha(<<>>), 0, <<>>)>>, Faucet),
          \* from an account that is no rollup account, with a receipt the
          \* callback refuses
          MkTx("RollupUpdate", Faucet, f, NoKey, 0, <<>>, Faucet),
          MkTx("DepositL2", Faucet, f, Rollup, 1, <<>>, Faucet),
          MkTx("Withdrawal", Faucet, f, NoKey, 1, <<>>, Faucet) }
        \cup { MkTx("RollupUpdate", Rollup, r, NoKey, 0, <<h>>, Rollup) :
                  h \in HeaderInputs(book) }
        \* an envelope of an earlier block, submitted again
        \cup { hist.log_l1[i] : i \in DOMAIN hist.log_l1 }

\* transactions queued on L2: the relayer mirrors any L1 header event as a
\* DepositL2, or hands in an envelope L1 never saw
L2TxInputs(book) ==
    LET f == NextSqn(book, Faucet)
        a == NextSqn(book, Alice)
    IN  { MkTx("Pay", Faucet, f, Alice, 1, <<>>, Faucet),
          MkTx("Pay", Alice, a, Faucet, 1, <<>>, Alice),
          MkTx("Withdrawal", Faucet, f, NoKey, 1, <<>>, Faucet),
          MkTx("Withdrawal", Alice, a, NoKey, 1, <<>>, Alice),
          MkTx("Withdrawal", Faucet, f, NoKey, U128Max, <<>>, Faucet),
          MkTx("Withdrawal", Faucet, f + 1, NoKey, 1, <<>>, Faucet),
          MkTx("DepositL2", Alice, 0, Rollup, 1, <<>>, Alice),
          \* a deposit of all a u128 can hold, with a sqn of any value
          MkTx("DepositL2", Alice, 7, Rollup, U128Max, <<>>, Alice),
          MkTx("RollupCreate", Faucet, f, Rollup, 0, <<>>, Faucet),
          MkTx("Deposit", Faucet, f, Rollup, 1, <<>>, Faucet),
          MkTx("RollupUpdate", Rollup, 0, NoKey, 0,
               <<HeaderL2(ZeroHash, 0, Sha(<<>>), 0, <<>>)>>, Rollup) }
        \cup { [hist.events[i] EXCEPT !.type = "DepositL2"] :
                  i \in DOMAIN hist.events }
        \* an envelope of an earlier block, submitted again
        \cup { hist.log_l2[i] : i \in DOMAIN hist.log_l2 }

\* the variants an engine does not admit
L1Foreign == {"DepositL2", "Withdrawal"}
L2Foreign == {"Deposit", "RollupCreate", "RollupUpdate"}

\* the pending lists of at most k transactions: after an accepted
\* transaction any list for the book it leaves, or the same envelope once
\* more.  The engine reads nothing past the first rejected transaction, so a
\* list ends there or, when the rejected one is of an admitted variant, goes
\* on with one transaction of a variant the engine does not admit
RECURSIVE L1PendingLists(_, _)
L1Extend(t, r, k) ==
    IF r.res = Ok
    THEN {<<t>> \o rest : rest \in L1PendingLists(r.book, k - 1)}
         \cup (IF k > 1 THEN {<<t, t>>} ELSE {})
    ELSE IF k > 1 /\ r.res \notin {Panic, "tx type"}
    THEN {<<t>>} \cup {<<t, u>> : u \in {v \in L1TxInputs(r.book) : v.type \in L1Foreign}}
    ELSE {<<t>>}

L1PendingLists(book, k) ==
    IF k = 0 THEN {<<>>}
    ELSE {<<>>} \cup UNION {L1Extend(t, L1Apply(book, t), k) : t \in L1TxInputs(book)}

RECURSIVE L2PendingLists(_, _)
L2Extend(t, r, k) ==
    IF r.res = Ok
    THEN {<<t>> \o rest : rest \in L2PendingLists(r.book, k - 1)}
         \cup (IF k > 1 THEN {<<t, t>>} ELSE {})
    ELSE IF k > 1 /\ r.res \notin {Panic, "tx type"}
    THEN {<<t>>} \cup {<<t, u>> : u \in {v \in L2TxInputs(r.book) : v.type \in L2Foreign}}
    ELSE {<<t>>}

L2PendingLists(book, k) ==
    IF k = 0 THEN {<<>>}
    ELSE {<<>>} \cup UNION {L2Extend(t, L2Apply(book, t, <<>>), k) :
                              t \in L2TxInputs(book)}

----------------------------------------------------------------------------
(* The state machine *)

Call(before, out) ==
    [before |-> before, res |-> out.res, header |-> out.header, steps |-> out.steps]

\* tests.rs Genesis::new: the L1 faucet holds the genesis amount, the L2
\* faucet nothing
Init ==
    /\ overflow_checks \in BOOLEAN
    /\ l1 = EngineDataNew(Faucet, FaucetAmount)
    /\ l2 = EngineDataNew(Faucet, 0)
    /\ l1_call = [before |-> EngineDataNew(Faucet, FaucetAmount), res |-> NoCall,
                  header |-> <<>>, steps |-> <<>>]
    /\ l2_call = [before |-> EngineDataNew(Faucet, 0), res |-> NoCall,
                  header |-> <<>>, steps |-> <<>>,
                  partial |-> get_partial(AccountBookNew(Faucet, 0), <<>>)]
    /\ l2_blocks = <<>>
    /\ hist = HistInit

\* process calls made so far: one per block produced, one per call that
\* ended an engine
CallsMade ==
    l1.sqn + l2.sqn
    + (IF l1_call.res \in {NoCall, Ok} THEN 0 ELSE 1)
    + (IF l2_call.res \in {NoCall, Ok} THEN 0 ELSE 1)

\* what an L1 call leaves: the EngineData, the call record, the history
L1Return(before, out) ==
    /\ l1' = out.input
    /\ l1_call' = Call(before, out)
    /\ hist' = IF out.res = Ok
               THEN [HistSteps(hist, out.steps, 1) EXCEPT
                        !.events = @ \o out.header[1].events,
                        !.headers_l1 = Append(@, out.header[1])]
               ELSE HistSteps(hist, out.steps, 1)

\* the caller queues a pending list and calls l1_engine::process.  The
\* callers of this repository stop at an Err (unwrap, assert!(is_ok)).
L1Process ==
    /\ l1_call.res \in {NoCall, Ok}
    /\ CallsMade < MaxCalls
    /\ \E txns \in L1PendingLists(l1.account_book, MaxTxns) :
          L1Return([l1 EXCEPT !.txns = txns], l1_process([l1 EXCEPT !.txns = txns]))
    /\ UNCHANGED <<overflow_checks, l2, l2_call, l2_blocks>>

\* what an L2 call leaves; the call record keeps what get_partial answers
\* for the EngineData handed in (EngineData::get_partial, the prover's input)
L2Return(before, out) ==
    /\ l2' = out.input
    /\ l2_call' = [before |-> before, res |-> out.res, header |-> out.header,
                   steps |-> out.steps,
                   partial |-> get_partial(before.account_book, before.txns)]
    /\ l2_blocks' = IF out.res = Ok
                    THEN Append(l2_blocks, [header |-> out.header[1],
                                            msgs |-> out.msgs])
                    ELSE l2_blocks
    /\ hist' = HistStepsL2(hist, out.steps, 1)

\* the caller queues a pending list and calls l2_engine::process
L2Process ==
    /\ l2_call.res \in {NoCall, Ok}
    /\ CallsMade < MaxCalls
    /\ \E txns \in L2PendingLists(l2.account_book, MaxTxns) :
          L2Return([l2 EXCEPT !.txns = txns], l2_process([l2 EXCEPT !.txns = txns]))
    /\ UNCHANGED <<overflow_checks, l1, l1_call>>

Next == L1Process \/ L2Process

Spec == Init /\ [][Next]_vars

----------------------------------------------------------------------------
(* Properties *)

ErrorTags ==
    {"sig", "account", "sqn", "sender", "exist", "missing", "not rollup account",
     "account_rollup", "parent", "inbox", "withdraw", "tx type", "receipt"}

L1Steps == {l1_call.steps[i] : i \in DOMAIN l1_call.steps}
L2Steps == {l2_call.steps[i] : i \in DOMAIN l2_call.steps}

\* the header a RollupUpdate step carries
StepHeader(step) == step.tx.receipt[1]

\* the sender's account and rollup state before a RollupUpdate step
StepSender(step) == step.pre.accounts[pk_to_hash(step.tx.sender)]
StepRollup(step) == StepSender(step).rollup[1]

\* a RollupUpdate step whose envelope passed sender_check, whose receipt the
\* callback accepted and whose sender is a rollup account: its header is
\* looked at
HeaderLookedAt(step) ==
    /\ step.tx.type = "RollupUpdate"
    /\ sender_check(step.pre, step.tx) = Ok
    /\ Len(step.tx.receipt) = 1
    /\ Len(StepSender(step).rollup) = 1

\* C1: after blocks that were all processed successfully, verify_partial_root
\* holds of the engine's book (every account's trie leaf is its hash)
C1_VerifyAfterBlocks ==
    /\ l1_call.res = Ok => verify_partial_root(l1.account_book)
    /\ l2_call.res = Ok => verify_partial_root(l2.account_book)

\* C2: when process returns an error, the account book is the one the call
\* started from
C2_BlocksAtomic ==
    /\ l1_call.res \in ErrorTags => l1.account_book = l1_call.before.account_book
    /\ l2_call.res \in ErrorTags => l2.account_book = l2_call.before.account_book

\* the recipients of a header's withdrawals
Recipients(header) ==
    {pk_to_hash(header.withdrawals[i].to) : i \in DOMAIN header.withdrawals}

ChangedIds(step) == {step.hashes[i][1] : i \in DOMAIN step.hashes}

\* C3: the change-set of a successful process_rollup_state_update holds the
\* rollup account and every withdrawal recipient, and every hash in it is the
\* hash of that account after the operation
C3_UpdateChangeSet ==
    \A step \in L1Steps :
        (step.tx.type = "RollupUpdate" /\ step.res = Ok) =>
            /\ {pk_to_hash(step.tx.sender)} \cup Recipients(StepHeader(step))
                  \subseteq ChangedIds(step)
            /\ \A i \in DOMAIN step.hashes :
                  step.hashes[i][2] =
                      AccountHash(step.post.accounts[step.hashes[i][1]])

\* the sum of `amount` over the accounts of a book
RECURSIVE SumAmounts(_, _)
SumAmounts(accounts, ids) ==
    IF ids = {} THEN 0
    ELSE LET id == CHOOSE x \in ids : TRUE
         IN  accounts[id].amount + SumAmounts(accounts, ids \ {id})

TotalAmount(book) == SumAmounts(book.accounts, DOMAIN book.accounts)

\* C4: every accepted L1 transaction leaves the sum of the amounts of the L1
\* book as it was
C4_L1ValueConserved ==
    \A step \in L1Steps :
        step.res = Ok => TotalAmount(step.post) = TotalAmount(step.pre)

\* C5: a book operation that returns an error tag leaves the accounts and
\* the trie as they were, and process_withdrawal leaves the caller's
\* withdrawal list as it was
C5_OpsAllOrNothing ==
    /\ \A step \in L1Steps :
          step.res \in ErrorTags => step.post = step.pre
    /\ \A step \in L2Steps :
          step.res \in ErrorTags =>
              step.post = step.pre /\ step.w_post = step.w_pre

\* C5 happens: an L2 block in which a withdrawal is rejected after another
\* one was recorded in the caller's list
C5_Witness ==
    \E step \in L2Steps :
        /\ step.tx.type = "Withdrawal"
        /\ step.res \in ErrorTags
        /\ Len(step.w_pre) >= 1

\* the header checks of process_rollup_state_update, on a step whose header
\* is looked at
ParentMatches(step) == StepHeader(step).parent = StepRollup(step).header_hash
SqnMatches(step) == StepHeader(step).sqn = StepRollup(step).sqn
CountInRange(step) ==
    StepHeader(step).inbox_msg_count <= Len(StepRollup(step).inbox)
InboxMatches(step) ==
    /\ CountInRange(step)
    /\ StepHeader(step).inbox_msg_hash =
          Sha(SubSeq(StepRollup(step).inbox, 1, StepHeader(step).inbox_msg_count))

\* the L1 book is there to be looked at: the engine has not aborted
L1Alive == l1_call.res # Panic

\* C6: a rollup account's sqn is the number of headers accepted for it; the
\* i-th accepted header has sqn i (from 0) and the hash of its predecessor as
\* parent (zero for the first); header_hash is the hash of the last one.  A
\* header with another parent is rejected with `parent`, one with the right
\* parent and another sqn with `sqn`.
C6_RollupHeaderChain ==
    /\ L1Alive =>
          \A id \in DOMAIN l1.account_book.accounts :
              LET a == l1.account_book.accounts[id]
                  acc == hist.accepted[id]
              IN  IF Len(a.rollup) = 0 THEN Len(acc) = 0
                  ELSE /\ a.rollup[1].sqn = Len(acc)
                       /\ \A i \in DOMAIN acc :
                             /\ acc[i].sqn = i - 1
                             /\ acc[i].parent = IF i = 1 THEN ZeroHash
                                                ELSE HeaderL2Hash(acc[i - 1])
                       /\ a.rollup[1].header_hash =
                             IF Len(acc) = 0 THEN ZeroHash
                             ELSE HeaderL2Hash(acc[Len(acc)])
    /\ \A step \in L1Steps :
          HeaderLookedAt(step) =>
              /\ ~ParentMatches(step) => step.res = "parent"
              /\ (ParentMatches(step) /\ ~SqnMatches(step)) => step.res = "sqn"

\* C6 happens: two headers were accepted for the rollup account and a third
\* one, with a parent that is not the last accepted header, was rejected
C6_Witness ==
    /\ L1Alive
    /\ Len(hist.accepted[pk_to_hash(Rollup)]) >= 2
    /\ \E step \in L1Steps :
          HeaderLookedAt(step) /\ ~ParentMatches(step) /\ step.res = "parent"

\* s is the front of t
IsPrefix(s, t) == Len(s) <= Len(t) /\ SubSeq(t, 1, Len(s)) = s

\* C7: a header produced by the L2 engine, once its parent and sqn fit,
\* passes the inbox check when the DepositL2 ids of its block are the front
\* of the rollup inbox, and is rejected with `inbox` when they are not
C7_CrossLayerInbox ==
    \A step \in L1Steps : \A i \in DOMAIN l2_blocks :
        (/\ HeaderLookedAt(step)
         /\ StepHeader(step) = l2_blocks[i].header
         /\ ParentMatches(step)
         /\ SqnMatches(step)) =>
            IF IsPrefix(l2_blocks[i].msgs, StepRollup(step).inbox)
            THEN step.res # "inbox" /\ InboxMatches(step)
            ELSE step.res = "inbox"

\* the inbox of the account at id, empty when it has none
InboxOf(book, id) ==
    IF id \in DOMAIN book.accounts /\ Len(book.accounts[id].rollup) = 1
    THEN book.accounts[id].rollup[1].inbox ELSE <<>>

\* C8: the ids removed from a rollup inbox followed by the inbox are the ids
\* of the deposits accepted for it, in order; an accepted Deposit appends its
\* id at the back of the target's inbox, an accepted RollupUpdate removes
\* inbox_msg_count ids from the front of the sender's, and nothing else
\* touches an inbox
C8_InboxFifo ==
    /\ L1Alive =>
          \A id \in Ids :
              hist.removed[id] \o InboxOf(l1.account_book, id) = hist.deposited[id]
    /\ \A step \in L1Steps : \A id \in Ids :
          step.res = Ok =>
              IF step.tx.type = "Deposit" /\ id = pk_to_hash(step.tx.key)
              THEN InboxOf(step.post, id) = Append(InboxOf(step.pre, id), TxId(step.tx))
              ELSE IF step.tx.type = "RollupUpdate" /\ id = pk_to_hash(step.tx.sender)
              THEN /\ CountInRange(step)
                   /\ InboxOf(step.pre, id) =
                         SubSeq(InboxOf(step.pre, id), 1,
                                StepHeader(step).inbox_msg_count)
                         \o InboxOf(step.post, id)
              ELSE InboxOf(step.post, id) = InboxOf(step.pre, id)

\* C8 happens: of two deposits accepted for the rollup account the first was
\* removed by an accepted RollupUpdate and the second is still in the inbox
C8_Witness ==
    /\ L1Alive
    /\ Len(hist.removed[pk_to_hash(Rollup)]) >= 1
    /\ Len(InboxOf(l1.account_book, pk_to_hash(Rollup))) >= 1

\* C9: process_rollup_state_update ends with a change-set or an error tag
\* also for a header whose inbox_msg_count is past the end of the inbox: that
\* header is answered with `inbox`
C9_UpdateTotal ==
    \A step \in L1Steps :
        (/\ HeaderLookedAt(step)
         /\ ParentMatches(step)
         /\ SqnMatches(step)
         /\ ~CountInRange(step)) => step.res = "inbox"

\* the sum of a header's withdrawal amounts, as an integer
RECURSIVE WithdrawalTotal(_, _)
WithdrawalTotal(withdrawals, i) ==
    IF i > Len(withdrawals) THEN 0
    ELSE withdrawals[i].amount + WithdrawalTotal(withdrawals, i + 1)

\* C10: a RollupUpdate that passes the checks before the withdrawal check and
\* whose withdrawals sum to more than the rollup account holds is rejected
\* with `withdraw` and changes nothing
C10_OverdrawRejected ==
    \A step \in L1Steps :
        (/\ HeaderLookedAt(step)
         /\ ParentMatches(step)
         /\ SqnMatches(step)
         /\ InboxMatches(step)
         /\ WithdrawalTotal(StepHeader(step).withdrawals, 1) > StepSender(step).amount)
        => step.res = "withdraw" /\ step.post = step.pre

\* the sum of the withdrawal amounts addressed to the account at id
RECURSIVE AddressedTo(_, _, _)
AddressedTo(withdrawals, id, i) ==
    IF i > Len(withdrawals) THEN 0
    ELSE (IF pk_to_hash(withdrawals[i].to) = id THEN withdrawals[i].amount ELSE 0)
         + AddressedTo(withdrawals, id, i + 1)

\* the balance of the account at id, 0 when the book has no such account
BalanceOf(book, id) ==
    IF id \in DOMAIN book.accounts THEN book.accounts[id].amount ELSE 0

\* C11: an accepted RollupUpdate takes the sum of the header's withdrawal
\* amounts from the rollup account and gives every account the sum of the
\* amounts addressed to it; a recipient that did not exist is created as a
\* non-rollup account with sqn_expect 0; no other account is created and no
\* other balance changes
C11_WithdrawalSettlement ==
    \A step \in L1Steps :
        (step.tx.type = "RollupUpdate" /\ step.res = Ok) =>
            LET ws == StepHeader(step).withdrawals
                id_sender == pk_to_hash(step.tx.sender)
            IN  /\ DOMAIN step.post.accounts =
                      DOMAIN step.pre.accounts \cup Recipients(StepHeader(step))
                /\ \A id \in DOMAIN step.post.accounts :
                      /\ step.post.accounts[id].amount =
                            BalanceOf(step.pre, id)
                            - (IF id = id_sender THEN WithdrawalTotal(ws, 1) ELSE 0)
                            + AddressedTo(ws, id, 1)
                      /\ id \notin DOMAIN step.pre.accounts =>
                            /\ step.post.accounts[id].rollup = <<>>
                            /\ step.post.accounts[id].sqn_expect = 0

\* an accepted step that subtracts from its sender's balance
Debits(step) ==
    step.res = Ok /\ step.tx.type \in {"Pay", "Deposit", "Withdrawal", "RollupUpdate"}

\* the sender's balance at the moment of the subtraction: process_deposit_l1
\* has credited the target by then, the other operations have changed nothing
BalanceAtDebit(step) ==
    IF step.tx.type = "Deposit"
    THEN DepositCredit(step.pre.accounts, step.tx)[pk_to_hash(step.tx.sender)].amount
    ELSE step.pre.accounts[pk_to_hash(step.tx.sender)].amount

\* what the step subtracts: ws for a RollupUpdate, the payload amount otherwise
AmountDebited(step) ==
    IF step.tx.type = "RollupUpdate"
    THEN SumWithdrawals(StepHeader(step).withdrawals, 1, [v |-> 0, ovf |-> FALSE]).v
    ELSE step.tx.amount

\* a Pay, Deposit or Withdrawal step that reaches sender_qualify asking for
\* more than the sender holds
AsksTooMuch(step) ==
    /\ step.tx.type \in {"Pay", "Deposit", "Withdrawal"}
    /\ sig_verify(step.tx)
    /\ pk_to_hash(step.tx.sender) \in DOMAIN step.pre.accounts
    /\ step.pre.accounts[pk_to_hash(step.tx.sender)].sqn_expect = step.tx.sqn
    /\ step.tx.amount > step.pre.accounts[pk_to_hash(step.tx.sender)].amount

\* C12: every subtraction from a balance takes at most what the account
\* holds at that moment, also when sender and destination are one account;
\* a Pay, Deposit or Withdrawal asking for more than the sender holds is
\* rejected with `sender` and changes nothing
C12_NoUnderflow ==
    /\ \A step \in L1Steps :
          /\ Debits(step) => AmountDebited(step) <= BalanceAtDebit(step)
          /\ AsksTooMuch(step) => step.res = "sender" /\ step.post = step.pre
    /\ \A step \in L2Steps :
          /\ Debits(step) => AmountDebited(step) <= BalanceAtDebit(step)
          /\ AsksTooMuch(step) => step.res = "sender" /\ step.post = step.pre

\* the L2 book is there to be looked at: the engine has not aborted
L2Alive == l2_call.res # Panic

\* sqn_expect of the account at id, 0 when the book has no such account
SqnExpectOf(book, id) ==
    IF id \in DOMAIN book.accounts THEN book.accounts[id].sqn_expect ELSE 0

\* what an accepted step adds to sqn_expect at id: 1 when the account sent
\* (signed) the transaction, nothing when it is only credited
SqnBump(step, id) ==
    IF /\ id = pk_to_hash(step.tx.sender)
       /\ step.tx.type \in {"Pay", "Deposit", "RollupCreate", "Withdrawal",
                            "RollupUpdate"}
    THEN 1 ELSE 0

\* sqn_expect over one step: an accepted step adds SqnBump, a rejected one
\* nothing
SqnStepOk(step) ==
    \A id \in Ids :
        SqnExpectOf(step.post, id) =
            SqnExpectOf(step.pre, id) + (IF step.res = Ok THEN SqnBump(step, id) ELSE 0)

\* C13: sqn_expect starts at 0 and grows by exactly 1 with every accepted
\* transaction sent by the account, and by nothing else: a credit (payment,
\* deposit, DepositL2, withdrawal settlement) or a rejected transaction leaves
\* it as it was; after n accepted transactions sent by an account it is n
C13_SqnExpectCounts ==
    /\ \A step \in L1Steps : step.res \in ErrorTags \cup {Ok} => SqnStepOk(step)
    /\ \A step \in L2Steps : step.res \in ErrorTags \cup {Ok} => SqnStepOk(step)
    /\ L1Alive => \A id \in Ids : SqnExpectOf(l1.account_book, id) = hist.sent_l1[id]
    /\ L2Alive => \A id \in Ids : SqnExpectOf(l2.account_book, id) = hist.sent_l2[id]

\* C13 happens: the faucet has sent two accepted L1 transactions, an L1
\* account holds what it was paid without having sent anything, and L2 has
\* credited an account through a DepositL2
C13_Witness ==
    /\ L1Alive /\ L2Alive
    /\ hist.sent_l1[pk_to_hash(Faucet)] >= 2
    /\ \E id \in DOMAIN l1.account_book.accounts :
          l1.account_book.accounts[id].amount >= 1 /\ hist.sent_l1[id] = 0
    /\ \E step \in L2Steps : step.tx.type = "DepositL2" /\ step.res = Ok

\* a step of an operation that starts with sender_check
SenderChecked(step) ==
    step.tx.type \in {"Pay", "Deposit", "RollupCreate", "Withdrawal", "RollupUpdate"}

\* the tag C14 gives a step: the first failing check in the order signature,
\* account, sqn, balance; "ok" when none fails
FirstFailingCheck(step) ==
    LET id_sender == pk_to_hash(step.tx.sender) IN
    IF step.tx.signer # step.tx.sender THEN "sig"
    ELSE IF id_sender \notin DOMAIN step.pre.accounts THEN "account"
    ELSE IF step.tx.sqn # step.pre.accounts[id_sender].sqn_expect THEN "sqn"
    ELSE IF /\ step.tx.type \in {"Pay", "Deposit", "Withdrawal"}
            /\ step.pre.accounts[id_sender].amount < step.tx.amount
    THEN "sender"
    ELSE Ok

SenderCheckTags == {"sig", "account", "sqn", "sender"}

\* one step against C14: sender_check answers the tag of the first failing
\* check and the operation is rejected with it, the book unchanged; when no
\* check fails the operation goes past sender_check (a `sqn` it then answers
\* is the one of process_rollup_state_update about the header's sqn)
SenderCheckOrdered(step) ==
    /\ sender_check(step.pre, step.tx) = FirstFailingCheck(step)
    /\ IF FirstFailingCheck(step) = Ok
       THEN step.res \in SenderCheckTags =>
                /\ step.res = "sqn"
                /\ HeaderLookedAt(step)
                /\ ParentMatches(step)
                /\ ~SqnMatches(step)
       ELSE step.res = FirstFailingCheck(step) /\ step.post = step.pre

\* C14: an operation that starts with sender_check is rejected with the tag
\* of the first failing check in the order `sig`, `account`, `sqn`, `sender`,
\* the book unchanged; when no check fails it goes past sender_check
C14_SenderCheckOrder ==
    /\ \A step \in L1Steps : SenderChecked(step) => SenderCheckOrdered(step)
    /\ \A step \in L2Steps : SenderChecked(step) => SenderCheckOrdered(step)

\* C14 happens: a correctly signed Pay with sqn 7, asking for more than the
\* sender holds, from an account whose sqn_expect is 0, is rejected with `sqn`
C14_Witness ==
    \E step \in L1Steps :
        /\ step.tx.type = "Pay"
        /\ step.tx.signer = step.tx.sender
        /\ step.tx.sqn = 7
        /\ SqnExpectOf(step.pre, pk_to_hash(step.tx.sender)) = 0
        /\ pk_to_hash(step.tx.sender) \in DOMAIN step.pre.accounts
        /\ step.pre.accounts[pk_to_hash(step.tx.sender)].amount < step.tx.amount
        /\ step.res = "sqn"
        /\ step.post = step.pre

\* a call was made and its pending list holds a variant of the set
HoldsForeign(call, foreign) ==
    call.res # NoCall /\ \E i \in DOMAIN call.before.txns : call.before.txns[i].type \in foreign

\* the place of the first transaction of a variant of the set in the call's
\* pending list
FirstForeign(call, foreign) ==
    CHOOSE i \in DOMAIN call.before.txns :
        /\ call.before.txns[i].type \in foreign
        /\ \A j \in 1..(i - 1) : call.before.txns[j].type \notin foreign

\* every transaction before the first one of a foreign variant was accepted
ReachesForeign(call, foreign) ==
    /\ HoldsForeign(call, foreign)
    /\ Len(call.steps) >= FirstForeign(call, foreign) - 1
    /\ \A j \in 1..(FirstForeign(call, foreign) - 1) : call.steps[j].res = Ok

\* the call produced no header and left parent, sqn and txns of the
\* EngineData as they were handed in
NotAdvanced(call, input) ==
    /\ call.header = <<>>
    /\ input.parent = call.before.parent
    /\ input.sqn = call.before.sqn
    /\ input.txns = call.before.txns

\* C15 as stated: a call whose pending list holds a variant the engine does
\* not admit returns `tx type`, produces no header and does not advance
\* parent, sqn and txns
C15_ForeignListRejected ==
    /\ HoldsForeign(l1_call, L1Foreign) =>
          l1_call.res = "tx type" /\ NotAdvanced(l1_call, l1)
    /\ HoldsForeign(l2_call, L2Foreign) =>
          l2_call.res = "tx type" /\ NotAdvanced(l2_call, l2)

\* C15 amended: a call returns `tx type` when it reaches a transaction of a
\* variant the engine does not admit, that is when every transaction before
\* the first such one is accepted (an earlier failure is returned with its own
\* tag); a call that returns an error produces no header and does not
\* advance parent, sqn and txns
C15_ForeignReachedRejected ==
    /\ ReachesForeign(l1_call, L1Foreign) => l1_call.res = "tx type"
    /\ ReachesForeign(l2_call, L2Foreign) => l2_call.res = "tx type"
    /\ l1_call.res = "tx type" => ReachesForeign(l1_call, L1Foreign)
    /\ l2_call.res = "tx type" => ReachesForeign(l2_call, L2Foreign)
    /\ l1_call.res \in ErrorTags => NotAdvanced(l1_call, l1)
    /\ l2_call.res \in ErrorTags => NotAdvanced(l2_call, l2)

\* C15 happens: each engine has accepted a transaction and then met one of a
\* variant it does not admit
C15_Witness ==
    /\ l1_call.res = "tx type" /\ Len(l1_call.steps) >= 1
    /\ l2_call.res = "tx type" /\ Len(l2_call.steps) >= 1
    /\ NotAdvanced(l1_call, l1) /\ NotAdvanced(l2_call, l2)

\* the headers the L2 engine has produced, in order
HeadersL2 == [i \in DOMAIN l2_blocks |-> l2_blocks[i].header]

\* C16: a successful process call returns a header whose parent and sqn are
\* those of the EngineData before the call and whose state_root is the book
\* root after the commit, and leaves parent = hash of that header, txns empty
\* and sqn one larger; so the k-th header of an engine has sqn k - 1, the
\* first has the zero parent and every later one the hash of its predecessor
C16_HeaderChain ==
    /\ l1_call.res = Ok =>
          /\ l1_call.header[1].parent = l1_call.before.parent
          /\ l1_call.header[1].sqn = l1_call.before.sqn
          /\ l1_call.header[1].state_root = BookRoot(l1.account_book)
          /\ l1.parent = HeaderL1Hash(l1_call.header[1])
          /\ l1.txns = <<>>
          /\ l1.sqn = l1_call.before.sqn + 1
    /\ l2_call.res = Ok =>
          /\ l2_call.header[1].parent = l2_call.before.parent
          /\ l2_call.header[1].sqn = l2_call.before.sqn
          /\ l2_call.header[1].state_root = BookRoot(l2.account_book)
          /\ l2.parent = HeaderL2Hash(l2_call.header[1])
          /\ l2.txns = <<>>
          /\ l2.sqn = l2_call.before.sqn + 1
    /\ \A k \in DOMAIN hist.headers_l1 :
          /\ hist.headers_l1[k].sqn = k - 1
          /\ hist.headers_l1[k].parent =
                IF k = 1 THEN ZeroHash ELSE HeaderL1Hash(hist.headers_l1[k - 1])
    /\ \A k \in DOMAIN HeadersL2 :
          /\ HeadersL2[k].sqn = k - 1
          /\ HeadersL2[k].parent =
                IF k = 1 THEN ZeroHash ELSE HeaderL2Hash(HeadersL2[k - 1])
    /\ l1.sqn = Len(hist.headers_l1)
    /\ l2.sqn = Len(l2_blocks)

\* C16 happens: the L1 engine has produced two headers, the second one over
\* a non-empty block
C16_Witness ==
    /\ Len(hist.headers_l1) >= 2
    /\ l1_call.res = Ok
    /\ Len(l1_call.before.txns) >= 1

IsDeposit(t) == t.type = "Deposit"
IsDepositStep(step) == step.tx.type = "Deposit"

\* the steps of the last L1 call that ran process_deposit_l1, in order
DepositSteps == SelectSeq(l1_call.steps, IsDepositStep)

\* C17: the events of the header of a successful L1 block are the Deposit
\* transactions of the block in submission order and nothing else; the ids
\* pushed to rollup inboxes during the block are the ids of the events, in
\* order: each Deposit pushes its id, no other transaction pushes one
C17_EventsAreDeposits ==
    l1_call.res = Ok =>
        LET events == l1_call.header[1].events IN
        /\ events = SelectSeq(l1_call.before.txns, IsDeposit)
        /\ Len(DepositSteps) = Len(events)
        /\ \A i \in DOMAIN events :
              LET step == DepositSteps[i]
                  id_to == pk_to_hash(step.tx.key)
              IN  /\ step.tx = events[i]
                  /\ InboxOf(step.post, id_to) =
                        Append(InboxOf(step.pre, id_to), TxId(events[i]))
        /\ \A step \in L1Steps : \A id \in Ids :
              (~IsDepositStep(step) \/ id # pk_to_hash(step.tx.key)) =>
                  Len(InboxOf(step.post, id)) <= Len(InboxOf(step.pre, id))

\* C17 happens: a successful L1 block with two Deposits
C17_Witness ==
    /\ l1_call.res = Ok
    /\ Len(l1_call.header[1].events) >= 2
    /\ l1_call.header[1].events[1] # l1_call.header[1].events[2]

IsDepositL2(t) == t.type = "DepositL2"
IsWithdrawal(t) == t.type = "Withdrawal"

\* C18: in the header of a successful L2 block inbox_msg_count is the number
\* of DepositL2 transactions of the block, inbox_msg_hash the hash of their
\* ids in submission order, withdrawals one record {to: sender, amount} per
\* Withdrawal in submission order, and txns_hash the hash of the ids of all
\* transactions of the block in submission order
C18_HeaderL2Fields ==
    l2_call.res = Ok =>
        LET txns == l2_call.before.txns
            header == l2_call.header[1]
            deps == SelectSeq(txns, IsDepositL2)
            wds == SelectSeq(txns, IsWithdrawal)
        IN  /\ header.inbox_msg_count = Len(deps)
            /\ header.inbox_msg_hash = Sha([i \in 1..Len(deps) |-> TxId(deps[i])])
            /\ header.withdrawals =
                  [i \in 1..Len(wds) |-> [to |-> wds[i].sender, amount |-> wds[i].amount]]
            /\ header.txns_hash = Sha([i \in 1..Len(txns) |-> TxId(txns[i])])

\* C18 happens: a successful L2 block holding a DepositL2 and a Withdrawal
C18_Witness ==
    /\ l2_call.res = Ok
    /\ l2_call.header[1].inbox_msg_count >= 1
    /\ Len(l2_call.header[1].withdrawals) >= 1
    /\ Len(l2_call.before.txns) >= 2

\* the pending list of the last L2 call holds only variants L2 admits
L2Admissible ==
    /\ l2_call.res # NoCall
    /\ \A i \in DOMAIN l2_call.before.txns :
          l2_call.before.txns[i].type \in {"Pay", "DepositL2", "Withdrawal"}

\* C19: for a list of L2-admissible transactions, whether or not the
\* accounts they touch exist in the book, get_partial returns a book with
\* the root of the original that holds copies of the affected accounts
C19_GetPartial ==
    L2Admissible =>
        LET book == l2_call.before.account_book
            aff == get_affected_account_ids(l2_call.before.txns).ids
        IN  /\ l2_call.partial.res = Ok
            /\ BookRoot(l2_call.partial.book) = BookRoot(book)
            /\ \A id \in aff \cap DOMAIN book.accounts :
                  /\ id \in DOMAIN l2_call.partial.book.accounts
                  /\ l2_call.partial.book.accounts[id] = book.accounts[id]


\* an accepted Pay step
IsPayStep(step) == step.tx.type = "Pay" /\ step.res = Ok

\* what an accepted Pay of amount a from S to D does to the accounts
PayEffect(step) ==
    LET S == pk_to_hash(step.tx.sender)
        D == pk_to_hash(step.tx.key)
        a == step.tx.amount
        pre == step.pre.accounts
        post == step.post.accounts
    IN  /\ DOMAIN post = DOMAIN pre \cup {D}
        /\ \A id \in DOMAIN pre \ {S, D} : post[id] = pre[id]
        /\ S # D =>
              /\ post[S] = [pre[S] EXCEPT !.amount = @ - a, !.sqn_expect = @ + 1]
              /\ D \in DOMAIN pre => post[D] = [pre[D] EXCEPT !.amount = @ + a]
              /\ D \notin DOMAIN pre => post[D] = AccountNew(step.tx.key, a, <<>>)
        /\ S = D => post[S] = [pre[S] EXCEPT !.sqn_expect = @ + 1]

\* the Pays of the log of L1 from one key to another
PaysInLog(from, to) ==
    {i \in DOMAIN hist.log_l1 :
        /\ hist.log_l1[i].type = "Pay"
        /\ hist.log_l1[i].sender = from
        /\ hist.log_l1[i].key = to
        /\ hist.log_l1[i].amount = 1}

\* all L1 has accepted since genesis: the faucet paid 1 to each recipient of
\* R, and each of them paid 1 back with sqn 0
RoundTrip(R) ==
    /\ Len(hist.log_l1) = 2 * Cardinality(R)
    /\ \A k \in R :
          /\ Cardinality(PaysInLog(Faucet, k)) = 1
          /\ Cardinality(PaysInLog(k, Faucet)) = 1
          /\ \A i \in PaysInLog(k, Faucet) : hist.log_l1[i].sqn = 0

\* the book after the round trip with the recipients R
RoundTripBook(R) ==
    LET acc == l1.account_book.accounts
        f == pk_to_hash(Faucet)
    IN  /\ \A k \in R :
              /\ pk_to_hash(k) \in DOMAIN acc
              /\ acc[pk_to_hash(k)].amount = 0
              /\ acc[pk_to_hash(k)].sqn_expect = 1
        /\ acc[f].amount = FaucetAmount
        /\ acc[f].sqn_expect = Cardinality(R)

\* C20: an accepted Pay of a from S to D takes a from S's balance, adds 1 to
\* S's sqn_expect and adds a to D's balance, creating D (non-rollup,
\* sqn_expect 0) when the book had no such account; D's sqn_expect and every
\* other account stay; with S = D the balance stays and sqn_expect grows by
\* 1.  After the faucet has paid each of n fresh recipients and each has paid
\* it back with sqn 0, every recipient holds 0 with sqn_expect 1 and the
\* faucet its genesis amount with sqn_expect n
C20_PayEffect ==
    /\ \A step \in L1Steps : IsPayStep(step) => PayEffect(step)
    /\ \A step \in L2Steps : IsPayStep(step) => PayEffect(step)
    /\ L1Alive =>
          \A R \in SUBSET (Keys \ {Faucet}) :
              R # {} /\ RoundTrip(R) => RoundTripBook(R)


\* a RollupCreate step, and whether the book held an account at the id of
\* rollup_pk before it
IsCreateStep(step) == step.tx.type = "RollupCreate"
CreateTargetExists(step) == pk_to_hash(step.tx.key) \in DOMAIN step.pre.accounts

\* what an accepted RollupCreate does to the accounts
CreateEffect(step) ==
    LET S == pk_to_hash(step.tx.sender)
        D == pk_to_hash(step.tx.key)
        pre == step.pre.accounts
        post == step.post.accounts
    IN  /\ DOMAIN post = DOMAIN pre \cup {D}
        /\ \A id \in DOMAIN pre \ {S} : post[id] = pre[id]
        /\ post[S] = [pre[S] EXCEPT !.sqn_expect = @ + 1]
        /\ post[D] = [owner |-> step.tx.key, amount |-> 0, sqn_expect |-> 0,
                      rollup |-> <<[inbox |-> <<>>, header_hash |-> ZeroHash,
                                    sqn |-> 0]>>]

\* a RollupCreate that is accepted found no account and has CreateEffect
CreateOkOnlyIfAbsent(step) ==
    step.res = Ok => ~CreateTargetExists(step) /\ CreateEffect(step)

\* C21 as stated: process_create_rollup_account succeeds only if no account
\* exists at the id of rollup_pk; otherwise, whatever the envelope, it fails
\* with `exist` and changes nothing; on success the new account has balance 0,
\* sqn_expect 0 and a fresh rollup state and the sender's sqn_expect grows by 1
C21_ExistWhateverEnvelope ==
    \A step \in L1Steps :
        IsCreateStep(step) =>
            /\ CreateOkOnlyIfAbsent(step)
            /\ CreateTargetExists(step) => step.res = "exist" /\ step.post = step.pre

\* C21: process_create_rollup_account succeeds only if no account exists at
\* the id of rollup_pk.  An envelope that fails sender_check is rejected with
\* the tag of sender_check; one that passes it while an account exists at the
\* id of rollup_pk (the sender's own key included) is rejected with `exist`;
\* a rejection changes nothing, not even the sender's sqn_expect.  On success
\* the new account has balance 0, sqn_expect 0 and a rollup state with empty
\* inbox, zero header_hash and sqn 0, and the sender's sqn_expect grows by 1
\* while its balance stays
C21_CreateRollupAccount ==
    \A step \in L1Steps :
        IsCreateStep(step) /\ step.res # Panic =>
            LET chk == sender_check(step.pre, step.tx) IN
            /\ CreateOkOnlyIfAbsent(step)
            /\ chk # Ok => step.res = chk /\ step.post = step.pre
            /\ chk = Ok /\ CreateTargetExists(step) =>
                  step.res = "exist" /\ step.post = step.pre
            /\ chk = Ok /\ ~CreateTargetExists(step) => step.res = Ok

\* C21 happens: in one block a RollupCreate is accepted and the next one,
\* naming the sender's own key, is rejected with `exist`
C21_Witness ==
    /\ Len(l1_call.steps) = 2
    /\ IsCreateStep(l1_call.steps[1]) /\ l1_call.steps[1].res = Ok
    /\ IsCreateStep(l1_call.steps[2]) /\ l1_call.steps[2].res = "exist"
    /\ l1_call.steps[2].tx.key = l1_call.steps[2].tx.sender
    /\ l1_call.steps[2].post = l1_call.steps[2].pre


\* a Deposit step of L1 whose envelope passes sender_check
IsCheckedDeposit(step) ==
    step.tx.type = "Deposit" /\ sender_check(step.pre, step.tx) = Ok

\* what an accepted Deposit of amount a from S into the rollup account D does
\* to the accounts; with S = D the credit and the debit cancel
DepositEffect(step) ==
    LET S == pk_to_hash(step.tx.sender)
        D == pk_to_hash(step.tx.key)
        a == step.tx.amount
        pre == step.pre.accounts
        post == step.post.accounts
    IN  /\ DOMAIN post = DOMAIN pre
        /\ \A id \in DOMAIN pre \ {S, D} : post[id] = pre[id]
        /\ post[D].rollup[1].inbox = Append(pre[D].rollup[1].inbox, TxId(step.tx))
        /\ post[D].rollup[1].header_hash = pre[D].rollup[1].header_hash
        /\ post[D].rollup[1].sqn = pre[D].rollup[1].sqn
        /\ post[D].owner = pre[D].owner
        /\ post[S].sqn_expect = pre[S].sqn_expect + 1
        /\ S # D =>
              /\ post[D].amount = pre[D].amount + a
              /\ post[D].sqn_expect = pre[D].sqn_expect
              /\ post[S] = [pre[S] EXCEPT !.amount = @ - a, !.sqn_expect = @ + 1]
        /\ S = D => post[D].amount = pre[D].amount

\* C22: process_deposit_l1 on a transaction passing sender_check fails with
\* `missing` when the book has no account at the id of rollup_pk and with
\* `not rollup account` when that account has no rollup state, changing
\* nothing; otherwise it adds the amount to the rollup account's balance,
\* appends exactly tx.id() at the back of its inbox, takes the amount from the
\* sender's balance and adds 1 to the sender's sqn_expect, leaving the
\* rollup's header_hash and sqn as they were
C22_DepositL1 ==
    \A step \in L1Steps :
        IsCheckedDeposit(step) =>
            LET D == pk_to_hash(step.tx.key)
                pre == step.pre.accounts
            IN  IF D \notin DOMAIN pre
                THEN step.res = "missing" /\ step.post = step.pre
                ELSE IF Len(pre[D].rollup) = 0
                THEN step.res = "not rollup account" /\ step.post = step.pre
                ELSE step.res = Ok /\ DepositEffect(step)


\* what process_deposit_l2 is said to do to the accounts: the account of
\* tx.sender holds the amount more (created with it when absent), the rest
\* is as it was
DepositL2Effect(step) ==
    LET D == pk_to_hash(step.tx.sender)
        a == step.tx.amount
        pre == step.pre.accounts
        post == step.post.accounts
    IN  /\ DOMAIN post = DOMAIN pre \cup {D}
        /\ \A id \in DOMAIN pre \ {D} : post[id] = pre[id]
        /\ D \in DOMAIN pre => post[D] = [pre[D] EXCEPT !.amount = @ + a]
        /\ D \notin DOMAIN pre => post[D] = AccountNew(step.tx.sender, a, <<>>)

\* C23: process_deposit_l2 never fails and makes no sender check: for any
\* envelope, whatever its sqn and whatever the state of the book, it adds
\* tx.payload.amount to the balance of the account of tx.sender (creating it
\* with that balance, non-rollup, sqn_expect 0, when absent) and changes
\* nothing else: the credited account's sqn_expect stays, no account is
\* debited
C23_DepositL2 ==
    \A step \in L2Steps :
        IsDepositL2(step.tx) => step.res = Ok /\ DepositL2Effect(step)


\* has the account a rollup state
IsRollupAccount(a) == Len(a.rollup) > 0

\* the ids RollupCreate has created on L1
CreatedByRollupCreate ==
    {pk_to_hash(hist.log_l1[i].key) :
        i \in {j \in DOMAIN hist.log_l1 : hist.log_l1[j].type = "RollupCreate"}}

\* over one step no account goes, no owner changes, no account gains or
\* loses a rollup state, and an account that appears has one exactly when
\* the step is an accepted RollupCreate
KindKept(step) ==
    LET pre == step.pre.accounts
        post == step.post.accounts
    IN  /\ DOMAIN pre \subseteq DOMAIN post
        /\ \A id \in DOMAIN pre :
              /\ post[id].owner = pre[id].owner
              /\ IsRollupAccount(post[id]) <=> IsRollupAccount(pre[id])
        /\ \A id \in DOMAIN post \ DOMAIN pre :
              /\ pk_to_hash(post[id].owner) = id
              /\ IsRollupAccount(post[id]) <=>
                    (IsCreateStep(step) /\ step.res = Ok /\ id = pk_to_hash(step.tx.key))

\* the accounts a call was handed are all in the book it leaves
CallKeepsAccounts(call, engine) ==
    call.res # NoCall =>
        DOMAIN call.before.account_book.accounts \subseteq DOMAIN engine.account_book.accounts

\* C24: accounts are never destroyed and their kind is fixed at creation:
\* the set of account ids only grows, an account's owner never changes, and
\* an account has a rollup state if and only if RollupCreate created it (one
\* created by Pay, DepositL2, withdrawal settlement or genesis never gains
\* one, a rollup account never loses it)
C24_AccountKind ==
    /\ \A step \in L1Steps : KindKept(step)
    /\ \A step \in L2Steps : KindKept(step)
    /\ CallKeepsAccounts(l1_call, l1) /\ CallKeepsAccounts(l2_call, l2)
    /\ \A id \in DOMAIN l2.account_book.accounts :
          ~IsRollupAccount(l2.account_book.accounts[id])
    /\ L1Alive =>
          \A id \in DOMAIN l1.account_book.accounts :
              /\ pk_to_hash(l1.account_book.accounts[id].owner) = id
              /\ IsRollupAccount(l1.account_book.accounts[id]) <=>
                    id \in CreatedByRollupCreate

\* C24 happens: the L1 book holds a rollup account that RollupCreate made and
\* that has since been paid, beside an account that a Pay made, and the L2
\* book holds an account that a DepositL2 made
C24_Witness ==
    /\ L1Alive
    /\ pk_to_hash(Rollup) \in CreatedByRollupCreate
    /\ IsRollupAccount(l1.account_book.accounts[pk_to_hash(Rollup)])
    /\ \E step \in L1Steps :
          /\ IsPayStep(step)
          /\ pk_to_hash(step.tx.key) \in DOMAIN step.pre.accounts
          /\ IsRollupAccount(step.pre.accounts[pk_to_hash(step.tx.key)])
    /\ \E step \in L2Steps :
          /\ IsDepositL2(step.tx) /\ step.res = Ok
          /\ pk_to_hash(step.tx.sender) \notin DOMAIN step.pre.accounts


\* does the sum process_rollup_state_update computes fit the sender's balance
WithdrawFits(step) ==
    SumWithdrawals(StepHeader(step).withdrawals, 1, [v |-> 0, ovf |-> FALSE]).v
        <= StepSender(step).amount

\* the checks on the header, in the order parent, sqn, inbox, withdraw: the
\* tag of the first one that fails, Ok when none does
FirstHeaderCheck(step) ==
    IF ~ParentMatches(step) THEN "parent"
    ELSE IF ~SqnMatches(step) THEN "sqn"
    ELSE IF ~InboxMatches(step) THEN "inbox"
    ELSE IF ~WithdrawFits(step) THEN "withdraw"
    ELSE Ok

\* the outcome of a RollupUpdate step when the checks come in the listed
\* order: sender_check and the sender's rollup state, then the callback, then
\* the header
ListedOrderTag(step) ==
    LET chk == sender_check(step.pre, step.tx)
        vr == valid_receipt(step.tx.receipt)
    IN  IF chk # Ok THEN chk
        ELSE IF ~IsRollupAccount(StepSender(step)) THEN "account_rollup"
        ELSE IF ~vr.ok THEN vr.err
        ELSE FirstHeaderCheck(step)

\* C25: process_rollup_state_update applies its checks in the listed order
\* and the first one that fails decides the error: sender_check with the
\* requirement that the sender has a rollup state (`account_rollup`) before
\* the callback is consulted, then the callback's error, then `parent`, `sqn`,
\* `inbox`, `withdraw`; a RollupUpdate sent by an account that is no rollup
\* account is rejected with `account_rollup` whatever the callback returns
C25_RollupUpdateOrder ==
    \A step \in L1Steps :
        step.tx.type = "RollupUpdate" /\ step.res # Panic =>
            step.res = ListedOrderTag(step)


\* the variants whose envelope goes through sender_check
SenderCheckedVariants == {"Pay", "Deposit", "RollupCreate", "Withdrawal", "RollupUpdate"}

\* the envelopes of the log accepted before step i of the call: the log
\* without what the steps from i on have added to it
AcceptedBefore(log, steps, i) ==
    {log[k] : k \in 1..(Len(log) - Cardinality({j \in i..Len(steps) :
                                        /\ steps[j].res = Ok
                                        /\ steps[j].tx.type \in SenderCheckedVariants}))}

\* every step of the call that submits again an envelope accepted before is
\* rejected with `sqn`
ReplaysRejected(log, steps) ==
    \A i \in DOMAIN steps :
        steps[i].tx \in AcceptedBefore(log, steps, i) => steps[i].res = "sqn"

\* no envelope is in the log twice
AcceptedOnce(log) ==
    \A i, j \in DOMAIN log : log[i] = log[j] => i = j

\* C26: over the blocks of one book an envelope that goes through
\* sender_check (Pay, Deposit, RollupCreate, Withdrawal, RollupUpdate) is
\* accepted at most once; submitted again, in the same or a later block, it
\* is rejected with `sqn`, the sender's sqn_expect having moved past it
C26_ReplayProtection ==
    /\ AcceptedOnce(hist.log_l1) /\ AcceptedOnce(hist.log_l2)
    /\ ReplaysRejected(hist.log_l1, l1_call.steps)
    /\ ReplaysRejected(hist.log_l2, l2_call.steps)

\* C26 happens: the second block of L1 accepts a transaction and then
\* rejects with `sqn` a Pay that the first block accepted
C26_Witness ==
    /\ l1_call.before.sqn = 1
    /\ Len(l1_call.steps) = 2
    /\ l1_call.steps[1].res = Ok
    /\ l1_call.steps[2].tx.type = "Pay"
    /\ l1_call.steps[2].tx \in AcceptedBefore(hist.log_l1, l1_call.steps, 1)
    /\ l1_call.steps[2].res = "sqn"


\* EngineData::get_partial of the EngineData the last L2 call was handed
PartialInput == [l2_call.before EXCEPT !.account_book = l2_call.partial.book]

\* main of the program on the partial EngineData gives what the call on the
\* full one gave: verify_partial_root passes, and l2_engine::process returns
\* the same header or the same error
ProvesTheSame(out) ==
    /\ verify_partial_root(l2_call.partial.book)
    /\ out.res = l2_call.res
    /\ out.header = l2_call.header

\* C27: for every L2 EngineData whose pending list holds only L2-admissible
\* transactions, l2_engine::process run on EngineData.get_partial(), which
\* passes verify_partial_root, returns the same result as run on the original
\* EngineData: the same header (parent, state_root, sqn, txns_hash,
\* inbox_msg_hash, inbox_msg_count, withdrawals) or the same error tag
C27_PartialEquivalence ==
    L2Admissible =>
        /\ l2_call.partial.res = Ok
        /\ ProvesTheSame(l2_process(PartialInput))


\* what the accepted L1 transactions from the i-th on say the rollup account
\* at id must hold: the amounts of the Deposits into it less the withdrawal
\* amounts of the headers settled from it
RECURSIVE OwedByRollup(_, _, _)
OwedByRollup(log, id, i) ==
    IF i > Len(log) THEN 0
    ELSE (IF log[i].type = "Deposit" /\ pk_to_hash(log[i].key) = id
          THEN log[i].amount
          ELSE IF log[i].type = "RollupUpdate" /\ pk_to_hash(log[i].sender) = id
          THEN 0 - WithdrawalTotal(log[i].receipt[1].withdrawals, 1)
          ELSE 0)
         + OwedByRollup(log, id, i + 1)

\* C28: after any sequence of accepted L1 transactions the balance of every
\* rollup account is at least the sum of the amounts of the Deposits accepted
\* into it less the sum of the withdrawal amounts settled from it: what was
\* deposited leaves the rollup account only through the withdrawals of an
\* accepted L2 header
C28_RollupSolvency ==
    L1Alive =>
        \A id \in DOMAIN l1.account_book.accounts :
            IsRollupAccount(l1.account_book.accounts[id]) =>
                l1.account_book.accounts[id].amount >= OwedByRollup(hist.log_l1, id, 1)

====
